---- MODULE Spec2Model ----
(***************************************************************************)
(* State-machine model of the voice-interface frontend:                    *)
(*   App.tsx            the store (React state of App), its transport      *)
(*                      callbacks, the silence timeout and handleConnect   *)
(*   ShowcaseLayout.tsx the derived transcript history, the                *)
(*                      conversationState machine and the two audio        *)
(*                      analyzers with their energy frames (React effects) *)
(*                                                                         *)
(* React is modelled as it schedules the code: a handler applies its       *)
(* setState calls to the pending state; a later commit (Render) runs, in   *)
(* declaration order, the effects whose dependencies differ from those of  *)
(* the previous commit.  Several handlers may run between two commits.     *)
(* Texts are sequences of characters so that trim() is computed.           *)
(* The analyzer effects run only when visualizerType is "waveform"; the    *)
(* specifications of the transcript store take the other setting.          *)
(***************************************************************************)
EXTENDS Integers, Sequences, FiniteSets, TLC

\* ------------------------------------------------------------------ bounds
MaxCalls == 2
MaxHist == 3
MaxTicks == 2
MaxTrack == 2
MaxAnalyzers == 2

\* ------------------------------------------------------------------ values
Empty == <<>>
Texts == {<<>>, <<" ">>, <<"a">>, <<"b">>}
LifecycleTexts == {<<>>, <<"a">>}
Finals == {"true", "false", "absent"}
Procs == 1..MaxCalls
TransportStates == {"disconnected", "connecting", "connected", "ready", "error"}

\* A field of a server message: <<>> when the payload lacks it (undefined
\* or null), <<v>> when it carries the value v
Absent == <<>>
Option(S) == {Absent} \cup {<<v>> : v \in S}

\* Record<string, { interested: boolean }>
NoResponses == [t \in {} |-> [interested |-> TRUE]]
ResponsesValues == {NoResponses, [t \in {"t1"} |-> [interested |-> TRUE]]}
AllTopicsValues == {<<>>, <<"t1", "t2">>}
DiscussedTopicsValues == {<<>>, <<"t1">>}
RemainingTopicsValues == {<<"t2">>}
CurrentTopicsValues == {<<"t1">>}
NodeValues == {"", "initial", "questions", "summary"}
ProgressValues == {"", "1/3"}
KnownNodes == {"initial", "questions"}

\* The data of a server message
UpdatePayloads ==
  [type : {"conversation_state_update"},
   all_topics : Option(AllTopicsValues),
   discussed_topics : Option(DiscussedTopicsValues),
   responses : Option(ResponsesValues),
   remaining_topics : Option(RemainingTopicsValues),
   current_topics : Option(CurrentTopicsValues),
   current_node : Option(NodeValues),
   progress : Option(ProgressValues)]

OtherPayloads ==
  [type : {"bot_llm_text"},
   all_topics : {<<<<"t1", "t2">>>>},
   discussed_topics : {Absent},
   responses : {Absent},
   remaining_topics : {Absent},
   current_topics : {Absent},
   current_node : Option({"questions"}),
   progress : {Absent}]

\* A message arrives as its data or wrapped as { data: ... }
Wrapped(P) == P \cup {[data |-> p] : p \in P}

\* The messages of the connection lifecycle specification
LifecyclePayloads ==
  {p \in UpdatePayloads :
     /\ p.all_topics = <<<<"t1", "t2">>>>
     /\ p.discussed_topics = <<<<"t1">>>>
     /\ p.responses # Absent /\ p.responses[1] # NoResponses
     /\ p.remaining_topics # Absent
     /\ p.current_topics # Absent
     /\ p.current_node \in {Absent, <<"questions">>}
     /\ p.progress = <<"1/3">>}
LifecycleMessages == Wrapped(LifecyclePayloads)

\* The messages of one session: every payload as the message itself, some
\* of them also wrapped
ServerMessages ==
  UpdatePayloads \cup Wrapped(LifecyclePayloads \cup OtherPayloads)

VARIABLES
  \* App.tsx: useState / useRef values, with every queued update applied
  transcripts, isBotSpeaking, streamingUserText, isUserSpeaking,
  streamingUserTextRef,
  \* the timer of the safety timeout effect is set
  timeoutPending,
  \* an updater that reads streamingUserTextRef.current is queued
  pendingUserFromRef,
  \* ShowcaseLayout.tsx: useState / useRef values
  transcriptHistory, conversationState, prevIsUserSpeaking, lastProcessedTts,
  \* the dependency values of the last commit
  rendered,
  \* history: Len(transcriptHistory) when the mode last became thinking
  thinkingSince,
  \* client.state of the transport
  clientState,
  \* handleConnect invocations: position, the promise they returned, and
  \* history: the requests each issued and their outcomes, in order
  pc, result, log,
  \* position in the scripted event sequence (0: none running)
  scenario,
  \* App.tsx: useState courseState, and the server message last delivered
  \* (<<>>: none yet)
  courseState, serverMessage,
  \* history: the transcriptHistory at the start of the scripted event
  \* sequence and the texts it has delivered
  noted,
  \* CONVERSATION_INFO_DISPLAYED.visualizerType, a deployment setting:
  \* "waveform" in the source, which runs the analyzer effects, or "plasma"
  visualizerType,
  \* ShowcaseLayout.tsx: the bot's audio track (0: none), the two energy
  \* frames, and every analyzer an effect run has created, in order
  botAudioTrack, micBars, botBars, mics, bots,
  \* a promise was rejected with no handler attached
  escaped,
  \* the component tree is mounted
  mounted

storeVars == <<transcripts, isBotSpeaking, streamingUserText, isUserSpeaking,
               streamingUserTextRef, pendingUserFromRef>>
layoutVars == <<transcriptHistory, conversationState, prevIsUserSpeaking,
                lastProcessedTts, rendered, thinkingSince>>
connVars == <<pc, log, result>>
courseVars == <<courseState, serverMessage>>
vizVars == <<visualizerType, botAudioTrack, micBars, botBars, mics, bots,
             escaped>>
vars == <<storeVars, timeoutPending, layoutVars, clientState, connVars,
          scenario, courseVars, noted, vizVars, mounted>>

\* ------------------------------------------------------------ pure helpers
RECURSIVE TrimLeft(_)
TrimLeft(t) == IF t # <<>> /\ Head(t) = " " THEN TrimLeft(Tail(t)) ELSE t

RECURSIVE TrimRight(_)
TrimRight(t) ==
  IF t # <<>> /\ t[Len(t)] = " " THEN TrimRight(SubSeq(t, 1, Len(t) - 1)) ELSE t

\* String.prototype.trim
Trim(t) == TrimRight(TrimLeft(t))

\* JavaScript truthiness of a string
Truthy(t) == t # <<>>

\* [...prev].reverse().find(m => m.speaker === sp): index of the last entry
\* of the speaker, 0 when there is none
LastIndexOf(h, sp) ==
  LET idx == {i \in 1..Len(h) : h[i].speaker = sp}
  IN IF idx = {} THEN 0 ELSE CHOOSE i \in idx : \A j \in idx : j <= i

\* the updater of the user history effect without the lastUserMsg test
AppendUserAlways(prev, text) ==
  Append(prev, [speaker |-> "user", text |-> text])

\* the updater of the user history effect
AppendUser(prev, text) ==
  LET k == LastIndexOf(prev, "user")
  IN IF k = 0 \/ prev[k].text # text
     THEN Append(prev, [speaker |-> "user", text |-> text])
     ELSE prev

\* the updater of the bot history effect
AppendBot(prev, text) ==
  LET k == LastIndexOf(prev, "bot")
  IN IF k # 0 /\ prev[k].text = text
     THEN prev
     ELSE Append(prev, [speaker |-> "bot", text |-> text])

\* ------------------------------ ShowcaseLayout.tsx: the energy frames
\* analyser.fftSize, the length of dataArray
fftSize == 256
\* the number of bars of a frame
BarCount == 32
\* Math.floor(dataArray.length / 32)
segmentSize == fftSize \div BarCount

\* The byte of a silent sample
Midpoint == 128
\* getByteTimeDomainData on silence
Silence == [k \in 1..fftSize |-> Midpoint]
\* The windows the analyser node delivers: of one sample value, of two
\* values that alternate segment by segment, and of two values in runs of
\* three samples, which mixes both values within the segments
SampleValues == {0, 128, 130, 255}
RunLengths == {3, segmentSize, fftSize}
Windows ==
  {[k \in 1..fftSize |-> IF ((k - 1) \div run) % 2 = 0 THEN a ELSE b] :
     a \in SampleValues, b \in SampleValues, run \in RunLengths}
\* The windows of the animation frames of the lifecycle specifications
Loud == [k \in 1..fftSize |-> 255]
TickWindows == {Silence, Loud}

\* Math.floor(Math.sqrt(n)): the root lies in lo..hi
RECURSIVE RootBetween(_, _, _)
RootBetween(n, lo, hi) ==
  IF lo = hi THEN lo
  ELSE LET mid == (lo + hi + 1) \div 2
       IN IF mid * mid <= n THEN RootBetween(n, mid, hi)
          ELSE RootBetween(n, lo, mid - 1)

\* rms is at most 1, so rms * 400 is at most 400
ISqrt(n) == RootBetween(n, 0, 400)

Min(a, b) == IF a < b THEN a ELSE b
Max(a, b) == IF a > b THEN a ELSE b

\* The sum over segment i (from 0) of val * val, in units of 1/128^2:
\* val = Math.abs((dataArray[i * segmentSize + j] - 128) / 128)
RECURSIVE SquareSum(_, _, _)
SquareSum(dataArray, i, j) ==
  IF j = segmentSize THEN 0
  ELSE LET d == dataArray[i * segmentSize + j + 1] - Midpoint
       IN d * d + SquareSum(dataArray, i, j + 1)

\* The integer part of rms * 400, rms = Math.sqrt(sum / segmentSize):
\* (rms * 400)^2 = 400^2 * SquareSum / (128^2 * segmentSize), and
\* 400^2 / 128^2 = 625 / 64
Rms400(dataArray, i) ==
  ISqrt((625 * SquareSum(dataArray, i, 0)) \div (64 * segmentSize))

\* The bar without the clamp
BarUnclamped(dataArray, i) == Rms400(dataArray, i)
\* bars.push(Math.max(5, Math.min(95, rms * 400))), as its integer part
Bar(dataArray, i) == Max(5, Min(95, Rms400(dataArray, i)))

\* The frame one run of animate passes to setMicBars / setBotBars
EnergyFrame(dataArray) == [i \in 1..BarCount |-> Bar(dataArray, i - 1)]

\* useState<number[]>(Array(32).fill(5))
InitialBars == [i \in 1..BarCount |-> 5]

\* new Uint8Array(analyser.fftSize)
NewDataArray == [k \in 1..fftSize |-> 0]

\* The analyzer an effect run creates: the promise of getUserMedia, the
\* closure's audioContext and animationId, the window last read, and
\* history: whether its cleanup has run and how often animate has run
StreamStates == {"pending", "resolved", "rejected"}
ContextStates == {"undefined", "running", "closed"}
FrameStates == {"undefined", "requested", "cancelled"}
AnalyzerOK(a) ==
  /\ a.stream \in StreamStates /\ a.audioContext \in ContextStates
  /\ a.animationId \in FrameStates /\ DOMAIN a.dataArray = 1..fftSize
  /\ a.cleaned \in BOOLEAN /\ a.ticks \in 0..MaxTicks

\* ------------------------------------------------------------------- Init
EmptyTranscripts == [user |-> Empty, bot |-> Empty]

\* useState<CourseState>({...})
InitialCourseState ==
  [all_topics |-> <<>>, discussed_topics |-> <<>>, responses |-> NoResponses,
   remaining_topics |-> <<>>, current_topics |-> <<>>,
   current_node |-> "initial", progress |-> "0/3"]

NothingNoted == [history |-> <<>>, texts |-> <<>>]

Modes == {"idle", "listening", "thinking"}
ScriptPositions == {11, 12, 21, 22, 31, 32, 33, 34, 41, 51, 61, 62, 71, 81, 91}
Entries == [speaker : {"user", "bot"}, text : Texts]

TypeOK ==
  /\ transcripts \in [user : Texts, bot : Texts]
  /\ isBotSpeaking \in BOOLEAN /\ isUserSpeaking \in BOOLEAN
  /\ streamingUserText \in Texts /\ streamingUserTextRef \in Texts
  /\ timeoutPending \in BOOLEAN /\ pendingUserFromRef \in BOOLEAN
  /\ Len(transcriptHistory) <= MaxHist
  /\ \A i \in 1..Len(transcriptHistory) : transcriptHistory[i] \in Entries
  /\ conversationState \in Modes
  /\ prevIsUserSpeaking \in BOOLEAN
  /\ lastProcessedTts \in Texts
  /\ rendered.transportState \in TransportStates
  /\ rendered.conversationState \in Modes
  /\ thinkingSince \in 0..MaxHist
  /\ clientState \in TransportStates
  /\ pc \in [Procs -> {"idle", "awaitDisconnect", "awaitSettle", "awaitStart",
                       "awaitReady", "awaitRecovery", "done"}]
  /\ result \in [Procs -> {"none", "fulfilled", "rejected"}]
  /\ scenario \in 0..3 \cup ScriptPositions
  /\ DOMAIN courseState = DOMAIN InitialCourseState
  /\ Len(serverMessage) <= 1
  /\ Len(noted.texts) <= 3
  /\ \A i \in 1..Len(noted.texts) : noted.texts[i] \in Texts
  /\ Len(noted.history) <= MaxHist
  /\ botAudioTrack \in 0..MaxTrack
  /\ visualizerType \in {"plasma", "waveform"}
  /\ DOMAIN micBars = 1..BarCount /\ DOMAIN botBars = 1..BarCount
  /\ Len(mics) <= MaxAnalyzers /\ Len(bots) <= MaxAnalyzers
  /\ \A i \in 1..Len(mics) : AnalyzerOK(mics[i])
  /\ \A i \in 1..Len(bots) : AnalyzerOK(bots[i])
  /\ escaped \in BOOLEAN /\ mounted \in BOOLEAN

\* The mounted application before the first connect
Mounted ==
  /\ transcripts = EmptyTranscripts
  /\ isBotSpeaking = FALSE
  /\ streamingUserText = Empty
  /\ isUserSpeaking = FALSE
  /\ streamingUserTextRef = Empty
  /\ timeoutPending = FALSE
  /\ pendingUserFromRef = FALSE
  /\ transcriptHistory = <<>>
  /\ conversationState = "idle"
  /\ prevIsUserSpeaking = FALSE
  /\ lastProcessedTts = Empty
  /\ rendered = [isUserSpeaking |-> FALSE, user |-> Empty, bot |-> Empty,
                 transportState |-> "disconnected",
                 transcriptHistory |-> <<>>, conversationState |-> "idle",
                 botAudioTrack |-> 0]
  /\ thinkingSince = 0
  /\ clientState = "disconnected"
  /\ pc = [p \in Procs |-> "idle"]
  /\ log = [p \in Procs |-> <<>>]
  /\ result = [p \in Procs |-> "none"]
  /\ scenario = 0
  /\ courseState = InitialCourseState
  /\ serverMessage = <<>>
  /\ noted = NothingNoted
  /\ botAudioTrack = 0
  /\ micBars = InitialBars
  /\ botBars = InitialBars
  /\ mics = <<>>
  /\ bots = <<>>
  /\ escaped = FALSE
  /\ mounted = TRUE

Init == visualizerType = "plasma" /\ Mounted
InitWaveform == visualizerType = "waveform" /\ Mounted

\* --------------------------------------------------- App.tsx: the handlers
\* Each handler is the effect of its setState calls on the pending state.
\* handleUserTranscript whose final branch leaves isUserSpeaking as it is
handleUserTranscriptKeepsSpeaking(text, final) ==
  LET isFinal == final # "false"
  IN IF Truthy(text)
     THEN IF ~isFinal
          THEN /\ streamingUserText' = text
               /\ streamingUserTextRef' = text
               /\ isUserSpeaking' = TRUE
               /\ UNCHANGED <<transcripts, pendingUserFromRef, isBotSpeaking>>
          ELSE /\ transcripts' = [transcripts EXCEPT !.user = text]
               /\ pendingUserFromRef' = FALSE
               /\ streamingUserText' = Empty
               /\ streamingUserTextRef' = Empty
               /\ UNCHANGED <<isUserSpeaking, isBotSpeaking>>
     ELSE UNCHANGED storeVars

\* message?.data ?? message
Data(message) == IF "data" \in DOMAIN message THEN message.data ELSE message

\* data.field || d for a string: undefined, null and '' are falsy
StringOr(field, d) == IF field = Absent \/ field[1] = "" THEN d ELSE field[1]

\* data.field || d for an array or an object: only undefined and null are
\* falsy
ObjectOr(field, d) == IF field = Absent THEN d ELSE field[1]

\* handleServerMessage that keeps the previous value of a field the payload
\* lacks
handleServerMessageMerging(message) ==
  LET data == Data(message)
  IN IF data.type = "conversation_state_update"
     THEN courseState' =
            [all_topics |-> ObjectOr(data.all_topics, courseState.all_topics),
             discussed_topics |->
               ObjectOr(data.discussed_topics, courseState.discussed_topics),
             responses |-> ObjectOr(data.responses, courseState.responses),
             remaining_topics |->
               ObjectOr(data.remaining_topics, courseState.remaining_topics),
             current_topics |->
               ObjectOr(data.current_topics, courseState.current_topics),
             current_node |->
               StringOr(data.current_node, courseState.current_node),
             progress |-> StringOr(data.progress, courseState.progress)]
     ELSE UNCHANGED courseState

handleServerMessage(message) ==
  LET data == Data(message)
  IN IF data.type = "conversation_state_update"
     THEN courseState' =
            [all_topics |-> ObjectOr(data.all_topics, <<>>),
             discussed_topics |-> ObjectOr(data.discussed_topics, <<>>),
             responses |-> ObjectOr(data.responses, NoResponses),
             remaining_topics |-> ObjectOr(data.remaining_topics, <<>>),
             current_topics |-> ObjectOr(data.current_topics, <<>>),
             current_node |-> StringOr(data.current_node, "initial"),
             progress |-> StringOr(data.progress, "0/3")]
     ELSE UNCHANGED courseState

handleUserTranscript(text, final) ==
  LET isFinal == final # "false"
  IN IF Truthy(text)
     THEN IF ~isFinal
          THEN /\ streamingUserText' = text
               /\ streamingUserTextRef' = text
               /\ isUserSpeaking' = TRUE
               /\ UNCHANGED <<transcripts, pendingUserFromRef, isBotSpeaking>>
          ELSE /\ transcripts' = [transcripts EXCEPT !.user = text]
               /\ pendingUserFromRef' = FALSE
               /\ streamingUserText' = Empty
               /\ streamingUserTextRef' = Empty
               /\ isUserSpeaking' = FALSE
               /\ UNCHANGED isBotSpeaking
     ELSE UNCHANGED storeVars

handleBotTtsText(text) ==
  IF Truthy(text) /\ Truthy(Trim(text))
  THEN /\ transcripts' = [transcripts EXCEPT !.bot = text]
       /\ UNCHANGED <<isBotSpeaking, streamingUserText, isUserSpeaking,
                      streamingUserTextRef, pendingUserFromRef>>
  ELSE UNCHANGED storeVars

handleBotStartedSpeaking ==
  /\ isBotSpeaking' = TRUE
  /\ UNCHANGED <<transcripts, streamingUserText, isUserSpeaking,
                 streamingUserTextRef, pendingUserFromRef>>

handleBotStoppedSpeaking ==
  /\ isBotSpeaking' = FALSE
  /\ UNCHANGED <<transcripts, streamingUserText, isUserSpeaking,
                 streamingUserTextRef, pendingUserFromRef>>

handleUserStartedSpeaking ==
  /\ isUserSpeaking' = TRUE
  /\ UNCHANGED <<transcripts, streamingUserText, isBotSpeaking,
                 streamingUserTextRef, pendingUserFromRef>>

\* handleConnected without setTranscripts({ user: '', bot: '' })
handleConnectedKeepsTranscripts ==
  /\ streamingUserText' = Empty
  /\ isUserSpeaking' = FALSE
  /\ isBotSpeaking' = FALSE
  /\ UNCHANGED <<transcripts, pendingUserFromRef, streamingUserTextRef>>

handleConnected ==
  /\ transcripts' = EmptyTranscripts
  /\ pendingUserFromRef' = FALSE
  /\ streamingUserText' = Empty
  /\ isUserSpeaking' = FALSE
  /\ isBotSpeaking' = FALSE
  /\ UNCHANGED streamingUserTextRef

handleDisconnected ==
  /\ streamingUserText' = Empty
  /\ isUserSpeaking' = FALSE
  /\ isBotSpeaking' = FALSE
  /\ UNCHANGED <<transcripts, streamingUserTextRef, pendingUserFromRef>>

\* ------------------------------------------- protocol events of a session
\* The transport delivers protocol events while the session is ready.
Delivering == mounted /\ clientState = "ready" /\ scenario = 0

UserTranscriptOf(T) ==
  /\ Delivering
  /\ \E text \in T, final \in Finals : handleUserTranscript(text, final)
  /\ UNCHANGED <<timeoutPending, layoutVars, clientState, connVars, scenario, courseVars, noted, vizVars, mounted>>

BotTtsTextOf(T) ==
  /\ Delivering
  /\ \E text \in T : handleBotTtsText(text)
  /\ UNCHANGED <<timeoutPending, layoutVars, clientState, connVars, scenario, courseVars, noted, vizVars, mounted>>

BotStartedSpeaking ==
  /\ Delivering
  /\ handleBotStartedSpeaking
  /\ UNCHANGED <<timeoutPending, layoutVars, clientState, connVars, scenario, courseVars, noted, vizVars, mounted>>

BotStoppedSpeaking ==
  /\ Delivering
  /\ handleBotStoppedSpeaking
  /\ UNCHANGED <<timeoutPending, layoutVars, clientState, connVars, scenario, courseVars, noted, vizVars, mounted>>

\* onServerMessage that also takes a message of another type as the text
\* the bot spoke
ServerMessageOfAsTranscript(M) ==
  /\ Delivering
  /\ \E message \in M :
       /\ handleServerMessage(message)
       /\ serverMessage' = <<message>>
       /\ IF Data(message).type = "conversation_state_update"
          THEN UNCHANGED storeVars
          ELSE /\ transcripts' = [transcripts EXCEPT !.bot = <<"b">>]
               /\ UNCHANGED <<isBotSpeaking, streamingUserText, isUserSpeaking,
                              streamingUserTextRef, pendingUserFromRef>>
  /\ UNCHANGED <<timeoutPending, layoutVars, clientState, connVars,
                 scenario, noted, vizVars, mounted>>

ServerMessageOf(M) ==
  /\ Delivering
  /\ \E message \in M :
       /\ handleServerMessage(message)
       /\ serverMessage' = <<message>>
  /\ UNCHANGED <<storeVars, timeoutPending, layoutVars, clientState, connVars,
                 scenario, noted, vizVars, mounted>>

UserStartedSpeaking ==
  /\ Delivering
  /\ handleUserStartedSpeaking
  /\ UNCHANGED <<timeoutPending, layoutVars, clientState, connVars, scenario, courseVars, noted, vizVars, mounted>>

\* ------------------------------------------ App.tsx: the silence timeout
\* The callback of setTimeout(..., 5000).  The updater passed to
\* setTranscripts reads streamingUserTextRef.current when React runs it:
\* at the call when the update queue is empty, otherwise during the next
\* render, that is after the callback has cleared the ref.
safetyTimeout ==
  /\ scenario = 0
  /\ timeoutPending
  /\ timeoutPending' = FALSE
  /\ IF Truthy(streamingUserTextRef)
     THEN \/ /\ transcripts' = [transcripts EXCEPT !.user = streamingUserTextRef]
             /\ pendingUserFromRef' = FALSE
          \/ /\ pendingUserFromRef' = TRUE
             /\ UNCHANGED transcripts
     ELSE UNCHANGED <<transcripts, pendingUserFromRef>>
  /\ streamingUserText' = Empty
  /\ streamingUserTextRef' = Empty
  /\ isUserSpeaking' = FALSE
  /\ UNCHANGED <<isBotSpeaking, layoutVars, clientState, connVars, scenario, courseVars, noted, vizVars, mounted>>

\* ------------------------------------- ShowcaseLayout.tsx: the effects
\* Conversation state machine: the edge of isUserSpeaking against the ref
conversationStateEffect(cs, prev, speaking) ==
  IF ~prev /\ speaking THEN "listening"
  ELSE IF prev /\ ~speaking THEN "thinking"
  ELSE cs

\* Clear thinking when bot responds: TRUE when setConversationState('idle')
\* is called
clearThinkingEffect(cs, h) ==
  /\ cs = "thinking"
  /\ Len(h) > 0
  /\ h[Len(h)].speaker = "bot"

\* Add final user transcripts to history
userHistoryEffect(h, user, speaking) ==
  IF Truthy(user) /\ Truthy(Trim(user)) /\ ~speaking
  THEN AppendUser(h, user)
  ELSE h

\* Add bot transcripts to history: the guard and the update
botHistoryGuard(bot, lastTts) ==
  Truthy(bot) /\ Truthy(Trim(bot)) /\ bot # lastTts

botHistoryEffect(h, bot, lastTts) ==
  IF botHistoryGuard(bot, lastTts) THEN AppendBot(h, bot) ELSE h

\* Reset history on new connection
resetHistoryEffect(h, ts) == IF ts = "ready" THEN <<>> ELSE h

\* Safety timeout effect: cleanup clears the old timer, the effect arms a
\* new one when isUserSpeaking
safetyTimeoutEffect(speaking) == speaking

\* The analyzer of a run of the mics effect: getUserMedia is pending
micAnalyzer ==
  [stream |-> "pending", audioContext |-> "undefined",
   animationId |-> "undefined", dataArray |-> NewDataArray,
   cleaned |-> FALSE, ticks |-> 0]

\* What the first run of animate leaves of an analyzer: the context and
\* the analyser are created, the window is read (nothing has been sampled
\* yet: silence) and the next frame is requested
started(a) ==
  [a EXCEPT !.stream = "resolved", !.audioContext = "running",
            !.animationId = "requested", !.dataArray = Silence,
            !.ticks = Min(MaxTicks, @ + 1)]

\* The analyzer of a run of the bot effect: created and started at once
botAnalyzer == started(micAnalyzer)

\* The cleanup an effect run returned:
\*   if (animationId) cancelAnimationFrame(animationId);
\*   if (audioContext) audioContext.close();
\* (the bot effect's context always exists)
analyzerCleanup(a) ==
  [a EXCEPT !.animationId = IF @ = "requested" THEN "cancelled" ELSE @,
            !.audioContext = IF @ = "running" THEN "closed" ELSE @,
            !.cleaned = TRUE]

\* The cleanup of the last effect run, if that run returned one
cleanupLast(as) ==
  IF as # <<>> /\ ~as[Len(as)].cleaned
  THEN [as EXCEPT ![Len(as)] = analyzerCleanup(@)]
  ELSE as

\* Audio analysis for mics, deps [transportState]
micEffect(as, type, ts) ==
  IF ts # "ready" \/ type # "waveform" THEN cleanupLast(as)
  ELSE Append(cleanupLast(as), micAnalyzer)

\* Audio analysis for bot audio, deps [botAudioTrack]
botEffect(as, type, track) ==
  IF track = 0 \/ type # "waveform" THEN cleanupLast(as)
  ELSE Append(cleanupLast(as), botAnalyzer)

\* The value of transcripts.user the next render computes
PendingUser ==
  IF pendingUserFromRef THEN streamingUserTextRef ELSE transcripts.user

\* The dependency values a commit would see now
CurrentDeps ==
  [isUserSpeaking |-> isUserSpeaking, user |-> PendingUser,
   bot |-> transcripts.bot, transportState |-> clientState,
   transcriptHistory |-> transcriptHistory,
   conversationState |-> conversationState,
   botAudioTrack |-> botAudioTrack]

\* No state update is waiting for a render
Quiescent == rendered = CurrentDeps

\* One commit of App and ShowcaseLayout: the effects whose dependencies
\* changed run in declaration order on the values of this render; their
\* state updates are queued in that order.
Render ==
  LET now == CurrentDeps
      depSpeaking == now.isUserSpeaking # rendered.isUserSpeaking
      depUser == now.user # rendered.user
      depBot == now.bot # rendered.bot
      depTs == now.transportState # rendered.transportState
      depHist == now.transcriptHistory # rendered.transcriptHistory
      depConv == now.conversationState # rendered.conversationState
      cs1 == IF depSpeaking
             THEN conversationStateEffect(conversationState,
                                          prevIsUserSpeaking, isUserSpeaking)
             ELSE conversationState
      clear == (depHist \/ depConv)
               /\ clearThinkingEffect(conversationState, transcriptHistory)
      cs2 == IF clear THEN "idle" ELSE cs1
      h1 == IF depUser \/ depSpeaking
            THEN userHistoryEffect(transcriptHistory, now.user, isUserSpeaking)
            ELSE transcriptHistory
      h2 == IF depBot
            THEN botHistoryEffect(h1, now.bot, lastProcessedTts)
            ELSE h1
      tts2 == IF depBot /\ botHistoryGuard(now.bot, lastProcessedTts)
              THEN now.bot ELSE lastProcessedTts
      reset == depTs /\ now.transportState = "ready"
      h3 == IF depTs THEN resetHistoryEffect(h2, now.transportState) ELSE h2
      depTrack == now.botAudioTrack # rendered.botAudioTrack
      bots2 == IF depTrack THEN botEffect(bots, visualizerType, botAudioTrack)
               ELSE bots
      mics2 == IF depTs THEN micEffect(mics, visualizerType, clientState)
               ELSE mics
  IN /\ mounted
     /\ Len(h3) <= MaxHist
     /\ Len(bots2) <= MaxAnalyzers /\ Len(mics2) <= MaxAnalyzers
     /\ transcripts' = [transcripts EXCEPT !.user = now.user]
     /\ pendingUserFromRef' = FALSE
     /\ conversationState' = cs2
     /\ prevIsUserSpeaking' = IF depSpeaking THEN isUserSpeaking
                              ELSE prevIsUserSpeaking
     /\ transcriptHistory' = h3
     /\ lastProcessedTts' = IF reset THEN Empty ELSE tts2
     /\ timeoutPending' = IF depSpeaking THEN safetyTimeoutEffect(isUserSpeaking)
                          ELSE timeoutPending
     /\ rendered' = now
     /\ thinkingSince' = IF cs2 # "thinking" \/ reset THEN 0
                         ELSE IF cs2 # conversationState
                              THEN Len(transcriptHistory)
                              ELSE thinkingSince
     /\ bots' = bots2
     /\ botBars' = IF Len(bots2) > Len(bots) THEN EnergyFrame(Silence)
                   ELSE botBars
     /\ mics' = mics2
     /\ UNCHANGED <<isBotSpeaking, streamingUserText, isUserSpeaking,
                    streamingUserTextRef, clientState, connVars, scenario,
                    courseVars, noted, visualizerType, botAudioTrack,
                    micBars, escaped, mounted>>

\* ------------------------------------------------- App.tsx: handleConnect
\* setTranscripts({ user: '', bot: '' }) before startBotAndConnect
resetTranscripts ==
  /\ transcripts' = EmptyTranscripts
  /\ pendingUserFromRef' = FALSE
  /\ UNCHANGED <<isBotSpeaking, streamingUserText, isUserSpeaking,
                 streamingUserTextRef>>

\* client.disconnect() has settled: fulfilled leaves the transport
\* disconnected (onDisconnected runs), rejected leaves it as it was
disconnectOutcome(ok) ==
  IF ok
  THEN /\ clientState' = "disconnected"
       /\ IF clientState # "disconnected"
          THEN handleDisconnected ELSE UNCHANGED storeVars
  ELSE UNCHANGED <<clientState, storeVars>>

\* handleConnect without the teardown of the live session
handleConnectNoTeardown(p) ==
  /\ mounted
  /\ scenario = 0
  /\ pc[p] \in {"idle", "done"}
  /\ rendered.transportState # "ready"
  /\ result' = [result EXCEPT ![p] = "none"]
  /\ resetTranscripts
  /\ pc' = [pc EXCEPT ![p] = "awaitStart"]
  /\ log' = [log EXCEPT ![p] =
               <<IF clientState # "disconnected" THEN "call_active"
                 ELSE "call_disconnected", "connect_req">>]
  /\ UNCHANGED <<timeoutPending, layoutVars, clientState, scenario, courseVars, noted, vizVars, mounted>>

\* The connect button is rendered while transportState !== 'ready'; a
\* click runs handleConnect up to its first await
handleConnect(p) ==
  /\ mounted
  /\ scenario = 0
  /\ pc[p] \in {"idle", "done"}
  /\ rendered.transportState # "ready"
  /\ result' = [result EXCEPT ![p] = "none"]
  /\ IF clientState # "disconnected"
     THEN /\ pc' = [pc EXCEPT ![p] = "awaitDisconnect"]
          /\ log' = [log EXCEPT ![p] = <<"call_active", "disconnect_req">>]
          /\ UNCHANGED storeVars
     ELSE /\ resetTranscripts
          /\ pc' = [pc EXCEPT ![p] = "awaitStart"]
          /\ log' = [log EXCEPT ![p] = <<"call_disconnected", "connect_req">>]
  /\ UNCHANGED <<timeoutPending, layoutVars, clientState, scenario, courseVars, noted, vizVars, mounted>>

\* awaitDisconnect without the inner try/catch: a rejection reaches the
\* outer catch block
awaitDisconnectUncaught(p) ==
  /\ pc[p] = "awaitDisconnect"
  /\ \E ok \in BOOLEAN :
       /\ disconnectOutcome(ok)
       /\ IF ok
          THEN /\ pc' = [pc EXCEPT ![p] = "awaitSettle"]
               /\ log' = [log EXCEPT ![p] = Append(@, "disconnect_ok")]
               /\ UNCHANGED result
          ELSE IF clientState = "ready" \/ clientState = "connecting"
          THEN /\ pc' = [pc EXCEPT ![p] = "awaitRecovery"]
               /\ log' = [log EXCEPT ![p] =
                            @ \o <<"disconnect_fail", "disconnect_req">>]
               /\ UNCHANGED result
          ELSE /\ pc' = [pc EXCEPT ![p] = "done"]
               /\ log' = [log EXCEPT ![p] = Append(@, "disconnect_fail")]
               /\ result' = [result EXCEPT ![p] = "fulfilled"]
  /\ UNCHANGED <<timeoutPending, layoutVars, scenario, courseVars, noted, vizVars, mounted>>

\* await client.disconnect() of the reconnect, inside its own try/catch
awaitDisconnect(p) ==
  /\ pc[p] = "awaitDisconnect"
  /\ \E ok \in BOOLEAN :
       /\ disconnectOutcome(ok)
       /\ log' = [log EXCEPT ![p] =
                    Append(@, IF ok THEN "disconnect_ok" ELSE "disconnect_fail")]
  /\ pc' = [pc EXCEPT ![p] = "awaitSettle"]
  /\ UNCHANGED <<timeoutPending, layoutVars, result, scenario, courseVars, noted, vizVars, mounted>>

\* the 500 ms settle delay has elapsed; startBotAndConnect is issued
awaitSettle(p) ==
  /\ pc[p] = "awaitSettle"
  /\ resetTranscripts
  /\ pc' = [pc EXCEPT ![p] = "awaitStart"]
  /\ log' = [log EXCEPT ![p] = @ \o <<"settle", "connect_req">>]
  /\ UNCHANGED <<timeoutPending, layoutVars, clientState, result, scenario, courseVars, noted, vizVars, mounted>>

\* startBotAndConnect fulfilled: the session is ready
awaitStartFulfilled(p) ==
  /\ pc[p] = "awaitReady"
  /\ clientState = "ready"
  /\ pc' = [pc EXCEPT ![p] = "done"]
  /\ log' = [log EXCEPT ![p] = Append(@, "connect_ok")]
  /\ result' = [result EXCEPT ![p] = "fulfilled"]
  /\ UNCHANGED <<storeVars, timeoutPending, layoutVars, clientState, scenario, courseVars, noted, vizVars, mounted>>

\* startBotAndConnect rejected: the catch block
awaitStartRejected(p) ==
  /\ pc[p] \in {"awaitStart", "awaitReady"}
  /\ IF clientState = "ready" \/ clientState = "connecting"
     THEN /\ pc' = [pc EXCEPT ![p] = "awaitRecovery"]
          /\ log' = [log EXCEPT ![p] = @ \o <<"connect_fail", "disconnect_req">>]
          /\ UNCHANGED result
     ELSE /\ pc' = [pc EXCEPT ![p] = "done"]
          /\ log' = [log EXCEPT ![p] = Append(@, "connect_fail")]
          /\ result' = [result EXCEPT ![p] = "fulfilled"]
  /\ UNCHANGED <<storeVars, timeoutPending, layoutVars, clientState, scenario, courseVars, noted, vizVars, mounted>>

\* await client.disconnect() of the error recovery, inside its try/catch
awaitRecovery(p) ==
  /\ pc[p] = "awaitRecovery"
  /\ \E ok \in BOOLEAN :
       /\ disconnectOutcome(ok)
       /\ log' = [log EXCEPT ![p] =
                    Append(@, IF ok THEN "disconnect_ok" ELSE "disconnect_fail")]
  /\ pc' = [pc EXCEPT ![p] = "done"]
  /\ result' = [result EXCEPT ![p] = "fulfilled"]
  /\ UNCHANGED <<timeoutPending, layoutVars, scenario, courseVars, noted, vizVars, mounted>>

\* ------------------------------------------------- the transport client
\* The session a pending startBotAndConnect establishes, and its loss.
\* A request is at awaitStart until the transport starts to connect for
\* it, then at awaitReady until it settles.
Outstanding == {p \in Procs : pc[p] \in {"awaitStart", "awaitReady"}}
Establishing == {p \in Procs : pc[p] = "awaitReady"}

transportConnecting ==
  /\ clientState \in {"disconnected", "error"}
  /\ clientState' = "connecting"
  /\ \E p \in Procs :
       /\ pc[p] = "awaitStart"
       /\ pc' = [pc EXCEPT ![p] = "awaitReady"]
  /\ UNCHANGED <<storeVars, timeoutPending, layoutVars, log, result, scenario, courseVars, noted, vizVars, mounted>>

\* onConnected
transportConnected ==
  /\ Establishing # {}
  /\ clientState = "connecting"
  /\ clientState' = "connected"
  /\ handleConnected
  /\ UNCHANGED <<timeoutPending, layoutVars, connVars, scenario, courseVars, noted, vizVars, mounted>>

transportReady ==
  /\ Establishing # {}
  /\ clientState = "connected"
  /\ clientState' = "ready"
  /\ UNCHANGED <<storeVars, timeoutPending, layoutVars, connVars, scenario, courseVars, noted, vizVars, mounted>>

transportError ==
  /\ clientState \in {"connecting", "connected"}
  /\ clientState' = "error"
  /\ UNCHANGED <<storeVars, timeoutPending, layoutVars, connVars, scenario, courseVars, noted, vizVars, mounted>>

\* onDisconnected: the remote end or the network drops the session
transportDisconnected ==
  /\ scenario = 0
  /\ clientState \in {"connecting", "connected", "ready"}
  /\ clientState' = "disconnected"
  /\ handleDisconnected
  /\ UNCHANGED <<timeoutPending, layoutVars, connVars, scenario, courseVars, noted, vizVars, mounted>>

\* -------------------------------- ShowcaseLayout.tsx: the audio analyzers
\* usePipecatClientMediaTrack("audio", "bot") returns a new track
botTrackStarted ==
  /\ mounted
  /\ clientState \in {"connected", "ready"}
  /\ botAudioTrack < MaxTrack
  /\ botAudioTrack' = botAudioTrack + 1
  /\ UNCHANGED <<storeVars, timeoutPending, layoutVars, clientState, connVars,
                 scenario, courseVars, noted, visualizerType, micBars, botBars,
                 mics, bots, escaped, mounted>>

\* setMicBars / setBotBars: a state update of an unmounted component is
\* dropped
setBars(bars, frame) == IF mounted THEN frame ELSE bars

\* getUserMedia({ audio: true }) is fulfilled: the .then callback creates
\* the context and calls animate()
getUserMediaFulfilled(i) ==
  /\ mics[i].stream = "pending"
  /\ mics' = [mics EXCEPT ![i] = started(@)]
  /\ micBars' = setBars(micBars, EnergyFrame(Silence))
  /\ UNCHANGED <<storeVars, timeoutPending, layoutVars, clientState, connVars,
                 scenario, courseVars, noted, visualizerType, botAudioTrack, botBars, bots,
                 escaped, mounted>>

\* getUserMedia({ audio: true }) is rejected: the promise has no rejection
\* handler
getUserMediaRejected(i) ==
  /\ mics[i].stream = "pending"
  /\ mics' = [mics EXCEPT ![i].stream = "rejected"]
  /\ escaped' = TRUE
  /\ UNCHANGED <<storeVars, timeoutPending, layoutVars, clientState, connVars,
                 scenario, courseVars, noted, visualizerType, botAudioTrack, micBars, botBars,
                 bots, mounted>>

\* animate, called by a requested animation frame
animate(a, window) ==
  [a EXCEPT !.dataArray = window, !.ticks = @ + 1]

animationFrameMic(i, W) ==
  /\ mics[i].animationId = "requested"
  /\ mics[i].ticks < MaxTicks
  /\ \E window \in W :
       /\ mics' = [mics EXCEPT ![i] = animate(@, window)]
       /\ micBars' = setBars(micBars, EnergyFrame(window))
  /\ UNCHANGED <<storeVars, timeoutPending, layoutVars, clientState, connVars,
                 scenario, courseVars, noted, visualizerType, botAudioTrack, botBars, bots,
                 escaped, mounted>>

animationFrameBot(i, W) ==
  /\ bots[i].animationId = "requested"
  /\ bots[i].ticks < MaxTicks
  /\ \E window \in W :
       /\ bots' = [bots EXCEPT ![i] = animate(@, window)]
       /\ botBars' = setBars(botBars, EnergyFrame(window))
  /\ UNCHANGED <<storeVars, timeoutPending, layoutVars, clientState, connVars,
                 scenario, courseVars, noted, visualizerType, botAudioTrack, micBars, mics,
                 escaped, mounted>>

\* ------------------------------------------------------------- unmount
\* The component tree is torn down: every effect's cleanup runs
unmount ==
  /\ mounted
  /\ scenario = 0
  /\ mounted' = FALSE
  /\ timeoutPending' = FALSE
  /\ mics' = cleanupLast(mics)
  /\ bots' = cleanupLast(bots)
  /\ UNCHANGED <<storeVars, layoutVars, clientState, connVars, scenario,
                 courseVars, noted, visualizerType, botAudioTrack, micBars, botBars, escaped>>

\* ------------------------------------------------------- specifications
\* A session that is ready and rendered, its store at the defaults: the
\* state after the first connect
FirstSession ==
  /\ transcripts = EmptyTranscripts
  /\ isBotSpeaking = FALSE
  /\ streamingUserText = Empty
  /\ isUserSpeaking = FALSE
  /\ streamingUserTextRef = Empty
  /\ timeoutPending = FALSE
  /\ pendingUserFromRef = FALSE
  /\ transcriptHistory = <<>>
  /\ conversationState = "idle"
  /\ prevIsUserSpeaking = FALSE
  /\ lastProcessedTts = Empty
  /\ rendered = [isUserSpeaking |-> FALSE, user |-> Empty, bot |-> Empty,
                 transportState |-> "ready",
                 transcriptHistory |-> <<>>, conversationState |-> "idle",
                 botAudioTrack |-> 0]
  /\ thinkingSince = 0
  /\ clientState = "ready"
  /\ pc = [p \in Procs |-> IF p = 1 THEN "done" ELSE "idle"]
  /\ log = [p \in Procs |->
              IF p = 1 THEN <<"call_disconnected", "connect_req", "connect_ok">>
              ELSE <<>>]
  /\ result = [p \in Procs |-> IF p = 1 THEN "fulfilled" ELSE "none"]
  /\ scenario = 0
  /\ courseState = InitialCourseState
  /\ serverMessage = <<>>
  /\ noted = NothingNoted
  /\ botAudioTrack = 0
  /\ micBars = InitialBars
  /\ botBars = InitialBars
  /\ mics = micEffect(<<>>, visualizerType, "ready")
  /\ bots = <<>>
  /\ escaped = FALSE
  /\ mounted = TRUE

InitSession == visualizerType = "plasma" /\ FirstSession
InitSessionWaveform == visualizerType = "waveform" /\ FirstSession

UserTranscript == UserTranscriptOf(Texts)
BotTtsText == BotTtsTextOf(Texts)

\* One session: protocol events, the silence timeout and rendering
NextSession ==
  \/ UserTranscript \/ BotTtsText \/ BotStartedSpeaking \/ BotStoppedSpeaking
  \/ UserStartedSpeaking \/ safetyTimeout \/ Render

SpecSession == InitSession /\ [][NextSession]_vars

ConnectAny == \E p \in Procs : handleConnect(p)
DisconnectedAny == \E p \in Procs : awaitDisconnect(p)
SettledAny == \E p \in Procs : awaitSettle(p)
StartFulfilledAny == \E p \in Procs : awaitStartFulfilled(p)
StartRejectedAny == \E p \in Procs : awaitStartRejected(p)
RecoveredAny == \E p \in Procs : awaitRecovery(p)

\* The connection lifecycle: any number of clicks up to MaxCalls pending,
\* the transport, and rendering
NextConn ==
  \/ ConnectAny \/ DisconnectedAny \/ SettledAny
  \/ StartFulfilledAny \/ StartRejectedAny \/ RecoveredAny
  \/ transportConnecting \/ transportConnected \/ transportReady
  \/ transportError \/ transportDisconnected
  \/ Render

SpecConn == Init /\ [][NextConn]_vars

Connect == handleConnect(1)
Disconnected == awaitDisconnect(1)
Settled == awaitSettle(1)
StartFulfilled == awaitStartFulfilled(1)
StartRejected == awaitStartRejected(1)
Recovered == awaitRecovery(1)
UserTranscriptLifecycle == UserTranscriptOf(LifecycleTexts)
BotTtsTextLifecycle == BotTtsTextOf(LifecycleTexts)

\* The whole frontend over successive sessions, one handleConnect at a time
Next ==
  \/ UserTranscriptLifecycle \/ BotTtsTextLifecycle
  \/ BotStartedSpeaking \/ BotStoppedSpeaking
  \/ UserStartedSpeaking \/ safetyTimeout \/ Render
  \/ Connect \/ Disconnected \/ Settled
  \/ StartFulfilled \/ StartRejected \/ Recovered
  \/ transportConnecting \/ transportConnected \/ transportReady
  \/ transportError \/ transportDisconnected

Spec == Init /\ [][Next]_vars

\* The event order user_speaking_started, user_transcript{final:true},
\* agent_transcript, delivered to a session whose mode is idle, each event
\* after the previous one has been rendered; no other event interleaves.
NonBlank == {t \in Texts : Truthy(Trim(t))}

LastAgentText ==
  LET k == LastIndexOf(transcriptHistory, "bot")
  IN IF k = 0 THEN Empty ELSE transcriptHistory[k].text

scenarioUserStartedSpeaking ==
  /\ scenario = 0
  /\ clientState = "ready"
  /\ Quiescent
  /\ conversationState = "idle"
  /\ ~isUserSpeaking
  /\ handleUserStartedSpeaking
  /\ scenario' = 1
  /\ UNCHANGED <<timeoutPending, layoutVars, clientState, connVars, courseVars, noted, vizVars, mounted>>

scenarioUserFinal ==
  /\ scenario = 1
  /\ Quiescent
  /\ \E text \in NonBlank : handleUserTranscript(text, "true")
  /\ scenario' = 2
  /\ UNCHANGED <<timeoutPending, layoutVars, clientState, connVars, courseVars, noted, vizVars, mounted>>

scenarioAgentTranscript ==
  /\ scenario = 2
  /\ Quiescent
  /\ \E text \in NonBlank \ {LastAgentText} : handleBotTtsText(text)
  /\ scenario' = 3
  /\ UNCHANGED <<timeoutPending, layoutVars, clientState, connVars, courseVars, noted, vizVars, mounted>>

NextScenario ==
  \/ UserTranscript \/ BotTtsText \/ BotStartedSpeaking \/ BotStoppedSpeaking
  \/ UserStartedSpeaking \/ safetyTimeout \/ Render
  \/ scenarioUserStartedSpeaking \/ scenarioUserFinal
  \/ scenarioAgentTranscript

SpecScenario == InitSession /\ [][NextScenario]_vars

\* The topic state of one session: server messages only
ServerMessage == ServerMessageOf(ServerMessages)
NextCourse == ServerMessage
SpecCourse == InitSession /\ [][NextCourse]_vars

\* The topic state over successive sessions, one handleConnect at a time
ServerMessageLifecycle == ServerMessageOf(LifecycleMessages)

NextCourseLifecycle ==
  \/ ServerMessageLifecycle \/ Render
  \/ Connect \/ Disconnected \/ Settled
  \/ StartFulfilled \/ StartRejected \/ Recovered
  \/ transportConnecting \/ transportConnected \/ transportReady
  \/ transportError \/ transportDisconnected

SpecCourseLifecycle == Init /\ [][NextCourseLifecycle]_vars

\* Server messages of both kinds among the transcript, bot speaking and
\* connection events of successive sessions; a partial transcript is the
\* event that sets isUserSpeaking
IndependenceTexts == {<<"a">>}
IndependenceMessages ==
  {m \in LifecyclePayloads \cup OtherPayloads : m.current_node # Absent}
ServerMessageIndependence == ServerMessageOf(IndependenceMessages)
UserTranscriptIndependence == UserTranscriptOf(IndependenceTexts)
BotTtsTextIndependence == BotTtsTextOf(IndependenceTexts)

NextIndependence ==
  \/ ServerMessageIndependence
  \/ UserTranscriptIndependence \/ BotTtsTextIndependence
  \/ BotStartedSpeaking \/ BotStoppedSpeaking \/ Render
  \/ Connect \/ Disconnected \/ Settled \/ StartFulfilled
  \/ transportConnecting \/ transportConnected \/ transportReady
  \/ transportDisconnected

SpecIndependence == Init /\ [][NextIndependence]_vars

\* Scripted event sequences delivered to a ready session in which no update
\* is waiting for a render; commits may happen between the events of a
\* sequence or after them; no other event interleaves.
LastUserText ==
  LET k == LastIndexOf(transcriptHistory, "user")
  IN IF k = 0 THEN Empty ELSE transcriptHistory[k].text

ScriptStart == scenario = 0 /\ clientState = "ready" /\ Quiescent
FinalFlags == {"true", "absent"}

\* user_transcript{text: x, final: false} then user_transcript{text: x},
\* x not the text of the last user entry
scriptUserPartial ==
  /\ ScriptStart
  /\ \E x \in Texts \ {Empty, LastUserText} :
       /\ handleUserTranscript(x, "false")
       /\ noted' = [history |-> transcriptHistory, texts |-> <<x>>]
  /\ scenario' = 11
  /\ UNCHANGED <<timeoutPending, layoutVars, clientState, connVars, courseVars, vizVars, mounted>>

scriptUserFinalAfterPartial ==
  /\ scenario = 11
  /\ \E final \in FinalFlags : handleUserTranscript(noted.texts[1], final)
  /\ scenario' = 12
  /\ UNCHANGED <<timeoutPending, layoutVars, clientState, connVars, courseVars,
                 noted, vizVars, mounted>>

\* the same final user_transcript twice in a row
scriptUserFinal ==
  /\ ScriptStart
  /\ \E x \in Texts \ {Empty, LastUserText}, final \in FinalFlags :
       /\ handleUserTranscript(x, final)
       /\ noted' = [history |-> transcriptHistory, texts |-> <<x>>]
  /\ scenario' = 21
  /\ UNCHANGED <<timeoutPending, layoutVars, clientState, connVars, courseVars, vizVars, mounted>>

scriptUserFinalAgain ==
  /\ scenario = 21
  /\ \E final \in FinalFlags : handleUserTranscript(noted.texts[1], final)
  /\ scenario' = 22
  /\ UNCHANGED <<timeoutPending, layoutVars, clientState, connVars, courseVars,
                 noted, vizVars, mounted>>

\* agent_transcript{text: a} twice, and a, b, a with a # b; a is not the
\* text of the last agent entry
scriptAgentFirst ==
  /\ ScriptStart
  /\ \E a \in NonBlank \ {LastAgentText} :
       /\ handleBotTtsText(a)
       /\ noted' = [history |-> transcriptHistory, texts |-> <<a>>]
  /\ scenario' = 31
  /\ UNCHANGED <<timeoutPending, layoutVars, clientState, connVars, courseVars, vizVars, mounted>>

scriptAgentRepeat ==
  /\ scenario = 31
  /\ handleBotTtsText(noted.texts[1])
  /\ noted' = [noted EXCEPT !.texts = Append(@, noted.texts[1])]
  /\ scenario' = 32
  /\ UNCHANGED <<timeoutPending, layoutVars, clientState, connVars, courseVars, vizVars, mounted>>

scriptAgentOther ==
  /\ scenario = 31
  /\ \E b \in NonBlank \ {noted.texts[1]} :
       /\ handleBotTtsText(b)
       /\ noted' = [noted EXCEPT !.texts = Append(@, b)]
  /\ scenario' = 33
  /\ UNCHANGED <<timeoutPending, layoutVars, clientState, connVars, courseVars, vizVars, mounted>>

scriptAgentBack ==
  /\ scenario = 33
  /\ handleBotTtsText(noted.texts[1])
  /\ noted' = [noted EXCEPT !.texts = Append(@, noted.texts[1])]
  /\ scenario' = 34
  /\ UNCHANGED <<timeoutPending, layoutVars, clientState, connVars, courseVars, vizVars, mounted>>

\* one final user_transcript, with any text (Empty: the text is '' or
\* missing), delivered in any state of the session
scriptFinalAnyState ==
  /\ scenario = 0
  /\ clientState = "ready"
  /\ \E text \in Texts, final \in FinalFlags :
       /\ handleUserTranscript(text, final)
       /\ noted' = [history |-> transcriptHistory, texts |-> <<text>>]
  /\ scenario' = 41
  /\ UNCHANGED <<timeoutPending, layoutVars, clientState, connVars, courseVars, vizVars, mounted>>

\* onDisconnected in a ready session in which no update is waiting for a
\* render
scriptDisconnected ==
  /\ ScriptStart
  /\ clientState' = "disconnected"
  /\ handleDisconnected
  /\ noted' = [history |-> transcriptHistory, texts |-> <<>>]
  /\ scenario' = 51
  /\ UNCHANGED <<timeoutPending, layoutVars, connVars, courseVars, vizVars, mounted>>

NextScript ==
  \/ UserTranscript \/ BotTtsText \/ BotStartedSpeaking \/ BotStoppedSpeaking
  \/ UserStartedSpeaking \/ safetyTimeout \/ Render
  \/ scriptUserPartial \/ scriptUserFinalAfterPartial
  \/ scriptUserFinal \/ scriptUserFinalAgain
  \/ scriptAgentFirst \/ scriptAgentRepeat \/ scriptAgentOther
  \/ scriptAgentBack
  \/ scriptFinalAnyState \/ scriptDisconnected

SpecScript == InitSession /\ [][NextScript]_vars

\* One event that is not a final transcript (a partial user transcript,
\* user-started-speaking, bot-started-speaking or bot-stopped-speaking) in
\* any state of a ready session; position 61 when no update was waiting for
\* a render, 62 otherwise.  The latest final transcripts are noted as the
\* next render would compute them.
scriptNonFinal ==
  /\ scenario = 0
  /\ mounted /\ clientState = "ready"
  /\ \/ \E text \in Texts : handleUserTranscript(text, "false")
     \/ handleUserStartedSpeaking
     \/ handleBotStartedSpeaking
     \/ handleBotStoppedSpeaking
  /\ noted' = [history |-> transcriptHistory,
               texts |-> <<PendingUser, transcripts.bot>>]
  /\ scenario' = IF Quiescent THEN 61 ELSE 62
  /\ UNCHANGED <<timeoutPending, layoutVars, clientState, connVars,
                 courseVars, vizVars, mounted>>

\* The history once an event with this speaker and text is fully applied:
\* one more entry when the text is not blank and differs from the
\* speaker's preceding entry
Applied(h, sp, text) ==
  IF Truthy(Trim(text))
     /\ (LastIndexOf(h, sp) = 0 \/ h[LastIndexOf(h, sp)].text # text)
  THEN Append(h, [speaker |-> sp, text |-> text])
  ELSE h

\* A sequence of final user transcripts and agent transcripts, any number
\* of them handled between two commits.  It starts when the user is not
\* speaking and no update is waiting; the history that applies every
\* event in arrival order is noted.
scriptTranscript ==
  /\ mounted /\ clientState = "ready"
  /\ \/ ScriptStart /\ ~isUserSpeaking /\ ~pendingUserFromRef
     \/ scenario = 71
  /\ Len(noted.texts) < 3 \/ scenario = 0
  /\ \E text \in Texts :
       LET h == IF scenario = 0 THEN transcriptHistory ELSE noted.history
           ts == IF scenario = 0 THEN <<>> ELSE noted.texts
       IN \/ /\ \E final \in FinalFlags : handleUserTranscript(text, final)
             /\ Len(Applied(h, "user", text)) <= MaxHist
             /\ noted' = [history |-> Applied(h, "user", text),
                          texts |-> Append(ts, text)]
          \/ /\ handleBotTtsText(text)
             /\ Len(Applied(h, "bot", text)) <= MaxHist
             /\ noted' = [history |-> Applied(h, "bot", text),
                          texts |-> Append(ts, text)]
  /\ scenario' = 71
  /\ UNCHANGED <<timeoutPending, layoutVars, clientState, connVars,
                 courseVars, vizVars, mounted>>

\* An agent transcript or a final user transcript whose text is empty or
\* whitespace only, handled when no update is waiting; the history and
\* the latest texts of before are noted.
BlankTexts == {text \in Texts : ~Truthy(Trim(text))}

scriptBlank ==
  /\ ScriptStart /\ mounted
  /\ \E text \in BlankTexts :
       \/ \E final \in FinalFlags : handleUserTranscript(text, final)
       \/ handleBotTtsText(text)
  /\ noted' = [history |-> transcriptHistory,
               texts |-> <<PendingUser, transcripts.bot>>]
  /\ scenario' = 81
  /\ UNCHANGED <<timeoutPending, layoutVars, clientState, connVars,
                 courseVars, vizVars, mounted>>

\* The callback of the silence timer
silenceTimeout ==
  /\ IF Truthy(streamingUserTextRef)
     THEN \/ /\ transcripts' = [transcripts EXCEPT !.user = streamingUserTextRef]
             /\ pendingUserFromRef' = FALSE
          \/ /\ pendingUserFromRef' = TRUE
             /\ UNCHANGED transcripts
     ELSE UNCHANGED <<transcripts, pendingUserFromRef>>
  /\ streamingUserText' = Empty
  /\ streamingUserTextRef' = Empty
  /\ isUserSpeaking' = FALSE
  /\ UNCHANGED isBotSpeaking

\* The silence timer fires when no partial text was seen since the user
\* started speaking and no update is waiting; the history and the latest
\* texts of before are noted.
scriptSilence ==
  /\ ScriptStart /\ mounted
  /\ timeoutPending
  /\ streamingUserText = Empty
  /\ timeoutPending' = FALSE
  /\ silenceTimeout
  /\ noted' = [history |-> transcriptHistory,
               texts |-> <<PendingUser, transcripts.bot>>]
  /\ scenario' = 91
  /\ UNCHANGED <<layoutVars, clientState, connVars, courseVars, vizVars,
                 mounted>>

\* One session with blank transcripts and silence timeouts followed to
\* their commits
NextSilence ==
  \/ UserTranscript \/ BotTtsText \/ BotStartedSpeaking \/ BotStoppedSpeaking
  \/ UserStartedSpeaking \/ safetyTimeout \/ Render
  \/ scriptBlank \/ scriptSilence

SpecSilence == InitSession /\ [][NextSilence]_vars

\* Events of one session, free or scripted, the silence timeout and
\* rendering
NextEvents ==
  \/ UserTranscript \/ BotTtsText \/ BotStartedSpeaking \/ BotStoppedSpeaking
  \/ UserStartedSpeaking \/ safetyTimeout \/ Render
  \/ scriptNonFinal \/ scriptTranscript

SpecEvents == InitSession /\ [][NextEvents]_vars

\* The energy frames of one ready session: the analyzers read any window
MicFulfilled == \E i \in 1..Len(mics) : getUserMediaFulfilled(i)
MicRejected == \E i \in 1..Len(mics) : getUserMediaRejected(i)
MicFrame == \E i \in 1..Len(mics) : animationFrameMic(i, Windows)
BotFrame == \E i \in 1..Len(bots) : animationFrameBot(i, Windows)

BotTrackFirst == botAudioTrack = 0 /\ botTrackStarted

NextFrame ==
  \/ BotTrackFirst \/ Render \/ MicFulfilled \/ MicFrame \/ BotFrame

SpecFrame == InitSessionWaveform /\ [][NextFrame]_vars

\* The lifecycle of the mic analyzer: connects, the transport,
\* getUserMedia, animation frames, rendering and the unmount
MicTick == \E i \in 1..Len(mics) : animationFrameMic(i, TickWindows)

NextAnalyzers ==
  \/ Connect \/ Disconnected \/ Settled
  \/ StartFulfilled \/ StartRejected \/ Recovered
  \/ transportConnecting \/ transportConnected \/ transportReady
  \/ transportError \/ transportDisconnected
  \/ MicFulfilled \/ MicRejected \/ MicTick
  \/ Render \/ unmount

SpecAnalyzers == InitWaveform /\ [][NextAnalyzers]_vars

\* Teardown of the application: connects, the transport, the user's
\* events, the silence timeout, rendering and the unmount
NextTeardown ==
  \/ UserTranscriptLifecycle \/ UserStartedSpeaking \/ safetyTimeout
  \/ Connect \/ Disconnected \/ Settled
  \/ StartFulfilled \/ StartRejected \/ Recovered
  \/ transportConnecting \/ transportConnected \/ transportReady
  \/ transportError \/ transportDisconnected
  \/ Render \/ unmount

SpecTeardown == Init /\ [][NextTeardown]_vars

\* ---------------------------------------------------------------- claims
Has(l, e) == \E i \in 1..Len(l) : l[i] = e
Positions(l, e) == {i \in 1..Len(l) : l[i] = e}
DisconnectOutcomes == {"disconnect_ok", "disconnect_fail"}
CalledActive(p) == Len(log[p]) > 0 /\ log[p][1] = "call_active"

\* C1: at most one connect attempt is in flight: no reachable state has two
\* startBotAndConnect requests outstanding.
C1_SingleConnectInFlight == Cardinality(Outstanding) <= 1

\* C2: a handleConnect called while the transport is not disconnected issues
\* its connect request only after its disconnect request has settled and
\* the settle delay has elapsed, in that order.
C2_DisconnectSettleConnect ==
  \A p \in Procs :
    CalledActive(p) =>
      \A c \in Positions(log[p], "connect_req") :
        \E d, o, s \in 1..Len(log[p]) :
          /\ d < o /\ o < s /\ s < c
          /\ log[p][d] = "disconnect_req"
          /\ log[p][o] \in DisconnectOutcomes
          /\ log[p][s] = "settle"

C2_Witness ==
  \E p \in Procs : CalledActive(p) /\ pc[p] = "awaitReady"

\* C3: when the disconnect at the start of handleConnect rejects, the settle
\* delay still elapses and the connect request is issued exactly once: the
\* invocation never ends, nor enters error recovery, without it.
DisconnectRejected(p) ==
  CalledActive(p) /\ Len(log[p]) >= 3 /\ log[p][3] = "disconnect_fail"

C3_DisconnectFailureTolerated ==
  \A p \in Procs :
    DisconnectRejected(p) =>
      /\ pc[p] \in {"awaitSettle", "awaitStart", "awaitReady",
                    "awaitRecovery", "done"}
      /\ pc[p] # "awaitSettle" =>
           /\ Cardinality(Positions(log[p], "connect_req")) = 1
           /\ log[p][4] = "settle"
           /\ log[p][5] = "connect_req"

C3_Witness ==
  \E p \in Procs : DisconnectRejected(p) /\ pc[p] = "done"

\* C5: after a failed connect attempt handleConnect finishes with the
\* transport disconnected, whatever state the failure left it in and
\* whatever the outcome of the forced disconnect.
C5_FailedConnectSettlesDisconnected ==
  [][\A p \in Procs :
       (pc[p] # "done" /\ pc'[p] = "done" /\ Has(log'[p], "connect_fail"))
         => clientState' = "disconnected"]_vars

\* C6: a failed connect is surfaced to the caller: the promise handleConnect
\* returns is rejected exactly when the attempt failed.
C6_FailureSurfaced ==
  \A p \in Procs :
    pc[p] = "done" =>
      (result[p] = "rejected" <=> Has(log[p], "connect_fail"))

\* C4: the store is at its connected defaults before the channel reaches
\* ready: when the transport becomes ready the latest transcripts, the
\* streaming text and the speaking flags are empty, and the commit that
\* first renders the ready state renders an empty transcript history (no
\* event of the new session has reached the history by then).
C4_FreshStoreAtReady ==
  [][/\ (clientState # "ready" /\ clientState' = "ready") =>
          /\ transcripts' = EmptyTranscripts
          /\ streamingUserText' = Empty
          /\ ~isUserSpeaking' /\ ~isBotSpeaking'
          /\ transcriptHistory' = <<>>
     /\ (rendered.transportState # "ready"
           /\ rendered'.transportState = "ready") =>
          rendered'.transcriptHistory = <<>>]_vars

\* C7: the user-speaking indicator cannot stay set forever: whenever
\* isUserSpeaking is set and rendered, with no update waiting for a render,
\* the silence timeout that will clear it is pending.
C7_SpeakingFlagGuarded ==
  (isUserSpeaking /\ Quiescent) => timeoutPending

\* C8: from mode idle the events user_speaking_started,
\* user_transcript{final:true}, agent_transcript leave the mode listening
\* after the first, thinking after the second, idle after the third.
C8_ModeSequence ==
  Quiescent =>
    /\ scenario = 1 => conversationState = "listening"
    /\ scenario = 2 => conversationState = "thinking"
    /\ scenario = 3 => conversationState = "idle"

\* C9: the mode changes only on its three edges: to listening on a rising
\* edge of isUserSpeaking, to thinking on a falling edge, and from thinking
\* to idle only on an agent entry appended since the mode became thinking.
C9_ModeEdgesOnly ==
  [][conversationState' # conversationState =>
       \/ /\ conversationState' = "listening"
          /\ ~rendered.isUserSpeaking /\ rendered'.isUserSpeaking
       \/ /\ conversationState' = "thinking"
          /\ rendered.isUserSpeaking /\ ~rendered'.isUserSpeaking
       \/ /\ conversationState = "thinking" /\ conversationState' = "idle"
          /\ Len(transcriptHistory) > thinkingSince
          /\ transcriptHistory[Len(transcriptHistory)].speaker = "bot"]_vars

\* C10: the mode is not carried across reconnects: the commit that first
\* renders a new ready state, and renders no edge of isUserSpeaking of the
\* new session, leaves conversationState idle.
C10_ModeResetOnReady ==
  [][(/\ rendered.transportState # "ready"
      /\ rendered'.transportState = "ready"
      /\ rendered'.isUserSpeaking = rendered.isUserSpeaking)
       => conversationState' = "idle"]_vars

\* C11 as stated: for every non-empty text x, a partial x followed by a
\* final x, and the final x delivered twice in a row, add exactly one user
\* entry with text x to the history; the partial alone adds none.
UserEntry(x) == [speaker |-> "user", text |-> x]

BotEntry(x) == [speaker |-> "bot", text |-> x]
BotEntries(ts) == [i \in 1..Len(ts) |-> BotEntry(ts[i])]

C12_AgentDedupAdjacentOnly ==
  Quiescent =>
    /\ scenario = 31 =>
         transcriptHistory = noted.history \o BotEntries(noted.texts)
    /\ scenario = 32 =>
         transcriptHistory = Append(noted.history, BotEntry(noted.texts[1]))
    /\ scenario \in {33, 34} =>
         transcriptHistory = noted.history \o BotEntries(noted.texts)

\* C13: in every reachable state no two consecutive entries of the
\* transcript history have the same speaker and the same text.
C13_NoAdjacentDuplicates ==
  \A i \in 1..(Len(transcriptHistory) - 1) :
    ~ /\ transcriptHistory[i].speaker = transcriptHistory[i + 1].speaker
      /\ transcriptHistory[i].text = transcriptHistory[i + 1].text

\* the user history effect has run again on the text of the last entry (on
\* a falling edge of isUserSpeaking) and has appended nothing
C13_Witness ==
  /\ Quiescent
  /\ Len(transcriptHistory) > 0
  /\ transcriptHistory[Len(transcriptHistory)] = UserEntry(rendered.user)
  /\ conversationState = "thinking"
  /\ thinkingSince = Len(transcriptHistory)

\* C14: every final user transcript (final true or absent), whatever its
\* text, empty or missing included, leaves the streaming user text empty
\* and isUserSpeaking false.
C14_FinalClearsStreaming ==
  scenario = 41 => (streamingUserText = Empty /\ ~isUserSpeaking)

\* C15: the connected event, in whatever state it is applied, leaves the
\* transcripts and the streaming user text empty and both speaking flags
\* false.
C15_ConnectedResets ==
  [][(clientState = "connecting" /\ clientState' = "connected") =>
       /\ transcripts' = EmptyTranscripts /\ ~pendingUserFromRef'
       /\ streamingUserText' = Empty
       /\ ~isUserSpeaking' /\ ~isBotSpeaking']_vars

\* connected, the store reset, the last commit still showing a user
\* transcript of the session before
C15_Witness ==
  /\ clientState = "connected"
  /\ transcripts = EmptyTranscripts /\ streamingUserText = Empty
  /\ ~isUserSpeaking /\ ~isBotSpeaking
  /\ rendered.user # Empty

\* C16: the disconnected event clears the streaming user text and both
\* speaking flags and leaves the transcript history as it was, also after
\* the commits that follow the event.
C16_DisconnectedKeepsHistory ==
  scenario = 51 =>
    /\ streamingUserText = Empty
    /\ ~isUserSpeaking /\ ~isBotSpeaking
    /\ transcriptHistory = noted.history

\* the payload of the last message, when it was a state update
Updated ==
  /\ serverMessage # <<>>
  /\ Data(serverMessage[1]).type = "conversation_state_update"
Payload == Data(serverMessage[1])

\* a field as the claim reads it: the payload's value when present
FieldOr(field, d) == IF field = Absent THEN d ELSE field[1]

\* C17 as stated: after a state update every field of the stored state
\* equals the payload's field when present and its default when missing;
\* nothing of the previous state survives.
C17_StateUpdateReplaces ==
  Updated =>
    courseState =
      [all_topics |-> FieldOr(Payload.all_topics, <<>>),
       discussed_topics |-> FieldOr(Payload.discussed_topics, <<>>),
       responses |-> FieldOr(Payload.responses, NoResponses),
       remaining_topics |-> FieldOr(Payload.remaining_topics, <<>>),
       current_topics |-> FieldOr(Payload.current_topics, <<>>),
       current_node |-> FieldOr(Payload.current_node, "initial"),
       progress |-> FieldOr(Payload.progress, "0/3")]

\* C17 amended: a string field that is present but empty counts as missing:
\* current_node and progress equal the payload's value when it is a
\* non-empty string and the default ('initial', '0/3') otherwise; the list
\* and mapping fields equal the payload's value when present, the empty
\* default when missing.
NonEmptyOr(field, d) ==
  IF field \in {Absent, <<"">>} THEN d ELSE field[1]

C17_StateUpdateReplacesNonEmpty ==
  Updated =>
    /\ courseState.all_topics = FieldOr(Payload.all_topics, <<>>)
    /\ courseState.discussed_topics = FieldOr(Payload.discussed_topics, <<>>)
    /\ courseState.responses = FieldOr(Payload.responses, NoResponses)
    /\ courseState.remaining_topics = FieldOr(Payload.remaining_topics, <<>>)
    /\ courseState.current_topics = FieldOr(Payload.current_topics, <<>>)
    /\ courseState.current_node = NonEmptyOr(Payload.current_node, "initial")
    /\ courseState.progress = NonEmptyOr(Payload.progress, "0/3")

\* an update with a present list, an empty node and no progress has been
\* applied
C17_Witness ==
  /\ Updated
  /\ Payload.all_topics = <<<<"t1", "t2">>>>
  /\ Payload.discussed_topics = Absent
  /\ Payload.current_node = <<"">>
  /\ Payload.progress = Absent
  /\ courseState.all_topics = <<"t1", "t2">>
  /\ courseState.discussed_topics = <<>>
  /\ courseState.current_node = "initial"
  /\ courseState.progress = "0/3"

\* C18: after every state update the discussed topics and the keys of the
\* responses are among allTopics.
Range(f) == {f[i] : i \in DOMAIN f}

C18_TopicsWithinCatalog ==
  /\ Range(courseState.discussed_topics) \subseteq Range(courseState.all_topics)
  /\ DOMAIN courseState.responses \subseteq Range(courseState.all_topics)

\* C19: the stored current node is always one of the known nodes.
C19_KnownNode == courseState.current_node \in KnownNodes

\* C20: when a session becomes ready the topic state is at its defaults:
\* nothing of the session before is left.
C20_CourseStateResetOnReady ==
  [][(clientState # "ready" /\ clientState' = "ready") =>
       courseState' = InitialCourseState]_vars

\* C21: every energy frame, the initial one or one computed by a run of
\* animate from any window of 256 bytes, has exactly 32 entries, each
\* between 5 and 95; a window of silence (every byte 128) gives 5 in every
\* entry.
FrameInRange(bars) ==
  /\ DOMAIN bars = 1..32
  /\ \A k \in 1..32 : 5 <= bars[k] /\ bars[k] <= 95

C21_EnergyFrameInRange ==
  /\ FrameInRange(micBars) /\ FrameInRange(botBars)
  /\ (Len(mics) = 1 /\ mics[1].ticks > 0 /\ mics[1].dataArray = Silence) =>
       \A k \in 1..32 : micBars[k] = 5
  /\ (Len(bots) = 1 /\ bots[1].ticks > 0 /\ bots[1].dataArray = Silence) =>
       \A k \in 1..32 : botBars[k] = 5

\* Both analyzers have run animate on a requested frame; the mic frame has
\* a bar at the upper limit and a bar strictly inside the range
C21_Witness ==
  /\ Len(mics) = 1 /\ mics[1].ticks > 1
  /\ Len(bots) = 1 /\ bots[1].ticks > 1
  /\ \E k \in 1..32 : micBars[k] = 95
  /\ \E k \in 1..32 : 5 < micBars[k] /\ micBars[k] < 95
  /\ botBars # InitialBars

\* C22: once the cleanup of an analyzer has run (its stream handle is gone,
\* the transport left 'ready', or the component unmounted) that analyzer
\* never runs animate again, so it calls setMicBars / setBotBars no more,
\* whatever animation frame or getUserMedia promise was pending.
Quiet(as) ==
  \A i \in 1..Len(as) : as[i].cleaned => as'[i].ticks = as[i].ticks

C22_NoFrameAfterTeardown == [][Quiet(mics) /\ Quiet(bots)]_vars

\* C23: when getUserMedia is rejected no error escapes the analyzer (the
\* rejection is handled) and the mic frame is the all-minimum frame, 5 in
\* each of its 32 entries.
C23_AcquisitionFailureContained ==
  \A i \in 1..Len(mics) :
    mics[i].stream = "rejected" =>
      /\ ~escaped
      /\ \A k \in 1..32 : micBars[k] = 5

\* C27: per stream at most one sampling context is live at any time, and a
\* context is closed once the cleanup of its analyzer has run (its trigger
\* is gone), also when the transport leaves 'ready' and becomes 'ready'
\* again before the first getUserMedia promise has resolved.
Live(as) == {i \in 1..Len(as) : as[i].audioContext = "running"}

NoContextLeak(as) ==
  /\ Cardinality(Live(as)) <= 1
  /\ \A i \in 1..Len(as) : as[i].cleaned => as[i].audioContext # "running"

C27_NoContextLeak == NoContextLeak(mics) /\ NoContextLeak(bots)

\* C24: teardown cancels every in-flight timer: once the component is
\* unmounted the silence timer is not pending, so it never fires, and a
\* pending settle delay never continues into a connect request (no
\* handleConnect invocation issues a connect request after the unmount).
ConnectRequests(p) == Cardinality(Positions(log[p], "connect_req"))

C24_TeardownCancelsTimers ==
  [][~mounted =>
       /\ ~timeoutPending /\ ~timeoutPending'
       /\ \A p \in Procs : ConnectRequests(p)' = ConnectRequests(p)]_vars

\* C25: an event that is not a final transcript never appends to the
\* history and leaves the latest final transcripts unchanged, in the step
\* that handles it (in every state) and in the commits that follow it; a
\* partial sets only the streaming text and isUserSpeaking = true, a
\* speaking event only its flag.
NonFinalHandled == scenario = 0 /\ scenario' \in {61, 62}

C25_NonFinalEventsKeepHistory ==
  [][/\ NonFinalHandled =>
          /\ transcriptHistory' = transcriptHistory
          /\ transcripts' = transcripts /\ PendingUser' = PendingUser
          /\ isBotSpeaking' # isBotSpeaking =>
                UNCHANGED <<streamingUserText, isUserSpeaking>>
          /\ isUserSpeaking' # isUserSpeaking =>
                isUserSpeaking' /\ UNCHANGED isBotSpeaking
          /\ streamingUserText' # streamingUserText =>
                isUserSpeaking' /\ UNCHANGED isBotSpeaking
     /\ scenario' = 61 =>
          /\ transcriptHistory' = noted'.history
          /\ PendingUser' = noted'.texts[1]
          /\ transcripts'.bot = noted'.texts[2]]_vars

\* C26: every inbound event is fully applied to the store and to the
\* derived history before the next one is processed: after any sequence of
\* final user transcripts and agent transcripts, however many of them were
\* handled between two commits, the history holds one entry for every
\* event whose non-blank text differs from the speaker's preceding entry,
\* in arrival order.
C26_EventsFullyApplied ==
  (scenario = 71 /\ Quiescent) => transcriptHistory = noted.history

\* C28: the history is append-only within a session: every step leaves
\* transcriptHistory unchanged, appends exactly one entry at its end, or
\* resets it to empty, and it is reset only by the step in which the
\* rendered transport state becomes 'ready'.
BecomesReady ==
  rendered.transportState # "ready" /\ rendered'.transportState = "ready"

C28_HistoryAppendOnly ==
  [][\/ transcriptHistory' = transcriptHistory
     \/ /\ Len(transcriptHistory') = Len(transcriptHistory) + 1
        /\ SubSeq(transcriptHistory', 1, Len(transcriptHistory))
             = transcriptHistory
     \/ transcriptHistory' = <<>> /\ BecomesReady]_vars

\* C29: a pending silence timer implies that isUserSpeaking is true: the
\* timer is cancelled whenever isUserSpeaking becomes false.  (The model
\* holds one timer at most: the effect's cleanup clears the previous one.)
C29_TimerOnlyWhileSpeaking == timeoutPending => isUserSpeaking

\* C30: in every reachable state a non-empty streaming user text implies
\* isUserSpeaking, and the mirror streamingUserTextRef equals
\* streamingUserText.
C30_StreamingTextMirrored ==
  /\ Truthy(streamingUserText) => isUserSpeaking
  /\ streamingUserTextRef = streamingUserText

\* C31: every entry of the history has non-blank text; an agent
\* transcript or a final user transcript whose text is empty or
\* whitespace only appends nothing; and a silence timeout that fires when
\* no partial text was seen clears isUserSpeaking, appends no entry and
\* leaves the latest user transcript as it was.
NonBlankHistory ==
  \A i \in 1..Len(transcriptHistory) : Truthy(Trim(transcriptHistory[i].text))

C31_BlankAppendsNothing ==
  /\ NonBlankHistory
  /\ (scenario \in {81, 91} /\ Quiescent) => transcriptHistory = noted.history
  /\ scenario = 91 => ~isUserSpeaking /\ PendingUser = noted.texts[1]

\* C32: topic state and transcript state are independent: a step that
\* handles a server message leaves transcripts, history, streaming text,
\* speaking flags and the interaction mode unchanged, and leaves the topic
\* state unchanged too unless the message is a conversation_state_update;
\* every other step leaves the topic state unchanged.
IsStateUpdate(m) == Data(m).type = "conversation_state_update"

C32_TopicStateIndependent ==
  [][/\ serverMessage' # serverMessage =>
          /\ UNCHANGED <<transcripts, transcriptHistory, streamingUserText,
                         isUserSpeaking, isBotSpeaking, conversationState>>
          /\ ~IsStateUpdate(serverMessage'[1]) => UNCHANGED courseState
     /\ courseState' # courseState =>
          /\ serverMessage' # serverMessage
          /\ IsStateUpdate(serverMessage'[1])]_vars

C32_Witness ==
  /\ courseState # InitialCourseState
  /\ serverMessage # <<>> /\ ~IsStateUpdate(serverMessage[1])
  /\ Len(transcriptHistory) = 2
  /\ isBotSpeaking

====
